---- MODULE Spec2Model ----
(***************************************************************************)
(* A model of the airline dashboard (src/app.py): the two Flask routes     *)
(* (index, api_price_trend), the helpers they call, and the two helpers    *)
(* get_ai_insights and markdown_to_html invoked on their own.              *)
(*                                                                         *)
(* Conventions.                                                            *)
(*  - A price is a whole number of cents (float(offer['price']['total'])   *)
(*    of a two-decimal amount); a mean is the pair sum/count, compared by  *)
(*    cross-multiplication; round(2) is rounding to the nearest cent,      *)
(*    halves to the even cent (numpy's rint).                              *)
(*  - A calendar date is a day number; the ISO date strings of the code    *)
(*    sort as these numbers do.                                            *)
(*  - A text is a sequence of one-character strings; the tags the code     *)
(*    inserts are single elements ("<ul>", "<li>", ...), so ''.join is     *)
(*    concatenation.                                                       *)
(*  - None is the string "None"; the empty dict {} is the empty function.  *)
(***************************************************************************)
EXTENDS Integers, Sequences, FiniteSets, TLC

\* ------------------------------------------------------------------ bounds
\* Offers in one search response (the code asks for max 50).
MaxOffers == 2
\* Days of the trend window (the code's range(1, 31) has 30).
TrendDays == 2
\* Length of the texts given to markdown_to_html on its own.
MaxLen == 4

\* --------------------------------------------------------------- constants
None == "None"
EmptyDict == << >>

\* CITIES, in the dict's insertion order, and the display names.
CITIES == <<"SYD", "MEL", "BNE", "PER", "ADL", "CBR", "HBA">>

CityNames == [SYD |-> "Sydney", MEL |-> "Melbourne", BNE |-> "Brisbane",
              PER |-> "Perth", ADL |-> "Adelaide", CBR |-> "Canberra",
              HBA |-> "Hobart"]

CityCodes == {CITIES[k] : k \in 1..Len(CITIES)}

\* CITIES.get(code) and CITIES.get(code, code)
CitiesGet(code) == IF code \in CityCodes THEN CityNames[code] ELSE None

CitiesGetOr(code) == IF code \in CityCodes THEN CityNames[code] ELSE code

\* The order of Python's string comparison on the city codes (what pandas'
\* groupby(sort=True) orders the group keys by).
CodesAscending == <<"ADL", "BNE", "CBR", "HBA", "MEL", "PER", "SYD">>

PLACEHOLDER_KEY == "YOUR_GEMINI_API_KEY"

\* ----------------------------------------------------------- sequences
Range(s) == {s[k] : k \in 1..Len(s)}

SeqsUpTo(S, n) == UNION {[1..k -> S] : k \in 0..n}

RECURSIVE SelectSeq2(_, _)
\* The subsequence of s whose elements are in the set S.
SelectSeq2(s, S) ==
  IF s = << >> THEN << >>
  ELSE (IF Head(s) \in S THEN <<Head(s)>> ELSE << >>) \o SelectSeq2(Tail(s), S)

RECURSIVE SumPrices(_)
SumPrices(rows) ==
  IF rows = << >> THEN 0 ELSE Head(rows).price + SumPrices(Tail(rows))

\* ------------------------------------------------------ markdown_to_html
WHITESPACE == {" ", "\n"}

RECURSIVE LStrip(_)
LStrip(t) ==
  IF t # << >> /\ Head(t) \in WHITESPACE THEN LStrip(Tail(t)) ELSE t

RECURSIVE RStrip(_)
RStrip(t) ==
  IF t # << >> /\ t[Len(t)] \in WHITESPACE
  THEN RStrip(SubSeq(t, 1, Len(t) - 1)) ELSE t

\* str.strip()
Strip(t) == RStrip(LStrip(t))

RECURSIVE Split(_)
\* str.split('\n'): always at least one (possibly empty) piece.
Split(t) ==
  IF \A k \in 1..Len(t) : t[k] # "\n" THEN <<t>>
  ELSE LET n == CHOOSE k \in 1..Len(t) :
                  t[k] = "\n" /\ \A m \in 1..(k - 1) : t[m] # "\n"
       IN  <<SubSeq(t, 1, n - 1)>> \o Split(SubSeq(t, n + 1, Len(t)))

\* The closing "**" positions that the non-greedy group (.*?) of the pattern
\* \*\*(.*?)\*\* can stop at, for an opening "**" at positions 1, 2: the dot
\* matches no newline.
BoldEnds(t) ==
  {j \in 3..(Len(t) - 1) :
      /\ t[j] = "*" /\ t[j + 1] = "*"
      /\ \A m \in 3..(j - 1) : t[m] # "\n"}

RECURSIVE Bold(_)
\* re.sub(r'\*\*(.*?)\*\*', r'<strong>\1</strong>', text)
Bold(t) ==
  IF Len(t) < 4 THEN t
  ELSE IF t[1] = "*" /\ t[2] = "*" /\ BoldEnds(t) # {}
       THEN LET j == CHOOSE x \in BoldEnds(t) : \A y \in BoldEnds(t) : x <= y
            IN  <<"<strong>">> \o SubSeq(t, 3, j - 1) \o <<"</strong>">>
                  \o Bold(SubSeq(t, j + 2, Len(t)))
       ELSE <<Head(t)>> \o Bold(Tail(t))

\* lines = text.strip().split('\n'), after the substitution
MdLines(text) == Split(Strip(Bold(text)))

\* line.startswith('* ') or line.startswith('- ')
IsListItem(line) ==
  Len(line) >= 2 /\ line[1] \in {"*", "-"} /\ line[2] = " "

\* A faulty variant of OpenList: the tag is appended whether or not a list is open.
OpenList_Always(st) ==
  [in_list |-> TRUE, html_output |-> st.html_output \o <<"<ul>">>]

\* if not in_list: html_output.append('<ul>'); in_list = True
OpenList(st) ==
  IF ~st.in_list
  THEN [in_list |-> TRUE, html_output |-> st.html_output \o <<"<ul>">>]
  ELSE st

\* if in_list: html_output.append('</ul>'); in_list = False
CloseList(st) ==
  IF st.in_list
  THEN [in_list |-> FALSE, html_output |-> st.html_output \o <<"</ul>">>]
  ELSE st

\* One pass of the body of `for line in lines`, on the loop state
\* st = [in_list, html_output].
MdStep(st, rawline) ==
  LET line == Strip(rawline) IN
  IF line = << >> THEN st
  ELSE IF IsListItem(line)
       THEN LET o == OpenList(st)
            IN  [o EXCEPT !.html_output =
                   @ \o <<"<li>">> \o SubSeq(line, 3, Len(line)) \o <<"</li>">>]
       ELSE LET c == CloseList(st)
            IN  [c EXCEPT !.html_output = @ \o <<"<p>">> \o line \o <<"</p>">>]

RECURSIVE MdLoop(_, _)
MdLoop(st, ls) ==
  IF ls = << >> THEN st ELSE MdLoop(MdStep(st, Head(ls)), Tail(ls))

\* The whole function, as get_ai_insights calls it.
markdown_to_html(text) ==
  CloseList(MdLoop([in_list |-> FALSE, html_output |-> << >>],
                   MdLines(text))).html_output

\* ------------------------------------------------- the pricing provider
\* What the provider may answer is the environment's choice. The offers that
\* exist on a route:
\*   OfferA, OfferB  same day, same price, different airline (a tie),
\*   OfferC          same day, one cent dearer (a mean with a half cent),
\*   OfferD          another departure day than OfferA's.
Offer(total, airline, day) ==
  [total |-> total, airline |-> airline, at |-> [date |-> day, time |-> "T10:00"]]

OfferA == Offer(100, "QF", 1)

OfferB == Offer(100, "VA", 1)

OfferC == Offer(101, "QF", 1)

OfferD == Offer(100, "QF", 2)

Catalogue(origin, destination) ==
  IF origin = "PER" /\ destination = "ADL" THEN {OfferA, OfferB, OfferC, OfferD}
  ELSE IF origin = "BNE" /\ destination = "SYD" THEN {OfferA, OfferC}
  ELSE IF origin = "MEL" /\ destination = "SYD" THEN {OfferA}
  ELSE IF origin = "SYD" /\ destination = "MEL" THEN {OfferA}
  ELSE {}

\* The outcomes of one GET of the flight-offers endpoint: a transport error or
\* a non-2xx status ("error"), or a JSON body whose 'data' is a list of offers.
SearchOutcomes(origin, destination) ==
  {[status |-> "error", data |-> << >>]}
    \cup {[status |-> "ok", data |-> d] :
            d \in SeqsUpTo(Catalogue(origin, destination), MaxOffers)}

\* The outcomes of the POST to the token endpoint: a transport error, a
\* non-2xx status, a JSON body without 'access_token', or a token.
TokenOutcomes == {"transport_error", "non_2xx", "no_access_token", "token"}

\* --------------------------------------------------------------- helpers
Returned(v) == [raised |-> FALSE, value |-> v]

Raised == [raised |-> TRUE, value |-> None]

\* get_amadeus_access_token(): the token, or None
get_amadeus_access_token(outcome) ==
  IF outcome \in {"transport_error", "non_2xx"} THEN None
  ELSE IF outcome = "no_access_token" THEN None
  ELSE "bearer"

\* A faulty variant of search_flight_deals: the except clause is missing and the
\* RequestException reaches the caller.
search_flight_deals_NoExcept(outcome) ==
  IF outcome.status = "error" THEN Raised ELSE Returned(outcome.data)

\* search_flight_deals(...): response.json().get('data', []), or [] when the
\* request raised a RequestException.
search_flight_deals(outcome) ==
  IF outcome.status = "error" THEN Returned(<< >>) ELSE Returned(outcome.data)

\* process_flight_data(flight_data, origin, destination): one row per offer.
process_flight_data(flight_data, origin, destination) ==
  IF flight_data = << >> THEN << >>
  ELSE [k \in 1..Len(flight_data) |->
          [origin |-> origin, destination |-> destination,
           price |-> flight_data[k].total,
           airline |-> flight_data[k].airline,
           departure_date |-> flight_data[k].at.date]]

\* ------------------------------------------------------------ aggregation
RECURSIVE Ascending(_)
\* The elements of a finite set of numbers, ascending.
Ascending(S) ==
  IF S = {} THEN << >>
  ELSE LET m == CHOOSE x \in S : \A y \in S : x <= y
       IN  <<m>> \o Ascending(S \ {m})

\* Series.round(2) of the mean sum/count, in cents: to the nearest cent, a half
\* cent to the even cent.
Round2(sum, count) ==
  LET q == sum \div count
      r == sum % count
  IN  IF 2 * r < count THEN q
      ELSE IF 2 * r > count THEN q + 1
      ELSE IF q % 2 = 0 THEN q ELSE q + 1

DatesOf(df) == {df[k].departure_date : k \in 1..Len(df)}

OriginsOf(df) == {df[k].origin : k \in 1..Len(df)}

RowsOn(df, date) == {k \in 1..Len(df) : df[k].departure_date = date}

\* groupby('departure_date')['price'].idxmin() for one date: the index of the
\* first row with the minimum price among that date's rows.
IdxMin(df, date) ==
  CHOOSE k \in RowsOn(df, date) :
    \A m \in RowsOn(df, date) :
      df[k].price < df[m].price \/ (df[k].price = df[m].price /\ k <= m)

\* A faulty variant of CheapestPerDate: the single cheapest row of the whole
\* response (df.loc[[df['price'].idxmin()]]).
CheapestPerDate_Overall(df) ==
  LET k == CHOOSE x \in 1..Len(df) :
             \A m \in 1..Len(df) :
               df[x].price < df[m].price \/ (df[x].price = df[m].price /\ x <= m)
  IN  <<df[k]>>

\* df.loc[df.groupby('departure_date')['price'].idxmin()]: the groups come in
\* ascending order of the date, one row for each.
CheapestPerDate(df) ==
  LET dates == Ascending(DatesOf(df))
  IN  [n \in 1..Len(dates) |-> df[IdxMin(df, dates[n])]]

\* The body of `if flight_data:` in both trend loops: the new price_trends_df.
TrendAccumulate(price_trends_df, flight_data, origin, destination) ==
  IF flight_data # << >>
  THEN LET df == process_flight_data(flight_data, origin, destination)
       IN  IF df # << >> THEN price_trends_df \o CheapestPerDate(df)
           ELSE price_trends_df
  ELSE price_trends_df

RowsOfDate(df, date) == SelectSeq2(df, {r \in Range(df) : r.departure_date = date})

RowsOfOrigin(df, origin) == SelectSeq2(df, {r \in Range(df) : r.origin = origin})

\* A faulty variant of PriceTrends: no grouping, one entry for each accumulated row.
PriceTrends_NoGroup(df) ==
  [k \in 1..Len(df) |-> [departure_date |-> df[k].departure_date,
                         price |-> df[k].price]]

\* groupby('departure_date')['price'].mean().round(2).sort_index(): one entry
\* for each date, ascending.
PriceTrends(df) ==
  LET dates == Ascending(DatesOf(df))
  IN  [n \in 1..Len(dates) |->
         LET rows == RowsOfDate(df, dates[n])
         IN  [departure_date |-> dates[n],
              price |-> Round2(SumPrices(rows), Len(rows))]]

\* groupby('origin')['price'].mean(): one entry for each origin, the keys in
\* ascending order; the mean is kept as sum/count.
GroupByOriginMean(df) ==
  LET keys == SelectSeq2(CodesAscending, OriginsOf(df))
  IN  [n \in 1..Len(keys) |->
         LET rows == RowsOfOrigin(df, keys[n])
         IN  [origin |-> keys[n], sum |-> SumPrices(rows), count |-> Len(rows)]]

MeanLeq(a, b) == a.sum * b.count <= b.sum * a.count

\* Series.sort_values(): the default kind is 'quicksort', which numpy does not
\* promise to be stable, so every ascending arrangement is a possible result.
SortValues(series) ==
  LET n == Len(series)
      perms == {p \in [1..n -> 1..n] : \A x, y \in 1..n : x # y => p[x] # p[y]}
  IN  {[k \in 1..n |-> series[p[k]]] : p \in
         {q \in perms : \A x, y \in 1..n : x < y => MeanLeq(series[q[x]], series[q[y]])}}

RoundSeries(series) ==
  [k \in 1..Len(series) |->
     [origin |-> series[k].origin, price |-> Round2(series[k].sum, series[k].count)]]

\* A faulty variant of PopularRoutes for the order: no sort_values.
PopularRoutes_NoSort(df) == {RoundSeries(GroupByOriginMean(df))}

\* A faulty variant of PopularRoutes for the sort key: round(2) before sort_values.
PopularRoutes_RoundFirst(df) ==
  LET g == GroupByOriginMean(df)
      rounded == [k \in 1..Len(g) |->
                    [origin |-> g[k].origin,
                     sum |-> Round2(g[k].sum, g[k].count), count |-> 1]]
  IN  {RoundSeries(s) : s \in SortValues(rounded)}

\* groupby('origin')['price'].mean().sort_values().round(2): the results the
\* sort may give.
PopularRoutes(df) == {RoundSeries(s) : s \in SortValues(GroupByOriginMean(df))}

Column(series, name) == [k \in 1..Len(series) |-> series[k][name]]

\* ----------------------------------------------------- get_ai_insights
NOT_CONFIGURED ==
  <<"<p>", "Gemini API key not configured. Insights are unavailable.", "</p>">>

NO_DATA ==
  <<"<p>", "No flight data was available to generate insights.", "</p>">>

BLOCKED ==
  <<"<p>", "The AI response was blocked for safety reasons. Please try a different query.", "</p>">>

UNAVAILABLE ==
  <<"<p>", "Could not generate AI insights. The Gemini API might be unavailable or the key is invalid.", "</p>">>

NO_DATA_FOUND ==
  <<"No data found for the selected destination. This may be due to the route having no availability in the next month or an API error.">>

\* The texts of the specification's examples: "**Save** now", "* A\n* B\nC".
SaveNow == <<"*", "*", "S", "a", "v", "e", "*", "*", " ", "n", "o", "w">>

ListThenParagraph == <<"*", " ", "A", "\n", "*", " ", "B", "\n", "C">>

\* The outcomes of model.generate_content(prompt): an exception, a response
\* without parts, or a text.
GenOutcomes ==
  {[kind |-> "exception", text |-> << >>], [kind |-> "blocked", text |-> << >>]}
    \cup {[kind |-> "text", text |-> t] : t \in {SaveNow, ListThenParagraph}}

\* A faulty variant of KeyMissing: the placeholder is taken for a key.
KeyMissing_NoPlaceholder(key) == key = None \/ key = ""

\* `not GEMINI_API_KEY or GEMINI_API_KEY == "YOUR_GEMINI_API_KEY"`
KeyMissing(key) == key = None \/ key = "" \/ key = PLACEHOLDER_KEY

\* get_ai_insights(df), with the key and the outcome the generation call
\* would have: the returned fragment and the calls of generate_content made.
get_ai_insights(key, df, gen) ==
  IF KeyMissing(key) THEN [html |-> NOT_CONFIGURED, calls |-> 0]
  ELSE IF df = << >> THEN [html |-> NO_DATA, calls |-> 0]
  ELSE [html |-> CASE gen.kind = "exception" -> UNAVAILABLE
                   [] gen.kind = "blocked" -> BLOCKED
                   [] OTHER -> markdown_to_html(gen.text),
        calls |-> 1]

\* popular_routes.reset_index().rename(columns={...})
InsightTable(popular_routes) ==
  [k \in 1..Len(popular_routes) |->
     [route_from |-> popular_routes[k].origin,
      average_price |-> popular_routes[k].price]]

\* ------------------------------------------------------------- the state
VARIABLES
  GEMINI_API_KEY,     \* the module-level configuration value
  pc,                 \* "idle", a handler's position, or "done"
  handler,            \* the entry point running: index, api_price_trend, ...
  destination,        \* index: destination_city; api_price_trend: destination
  origin,             \* index: trend_origin_city; api_price_trend: origin
  origin_cities,      \* index: the origins, in CITIES order
  access_token,
  popular_routes_df,  \* the accumulated snapshot rows
  price_trends_df,    \* the accumulated trend rows
  i,                  \* the position in the running loop
  flight_data,        \* what the last search_flight_deals returned
  last_status,        \* the outcome of the last search: "ok", "error"
  net_log,            \* the outbound calls made, in order
  response,           \* what the entry point returned
  ai_df,              \* the table get_ai_insights was called with
  text,               \* markdown_to_html: its argument
  lines,              \* markdown_to_html: the lines still to process
  in_list,
  html_output

vars == <<GEMINI_API_KEY, pc, handler, destination, origin, origin_cities,
          access_token, popular_routes_df, price_trends_df, i, flight_data,
          last_status, net_log, response, ai_df, text, lines, in_list,
          html_output>>

reqVars == <<destination, origin, origin_cities, access_token,
             popular_routes_df, price_trends_df, i, flight_data, last_status>>

mdVars == <<text, lines, in_list, html_output>>

\* The values the configuration may hold.
KeyValues == {None, PLACEHOLDER_KEY, "gemini-key"}

\* The submitted form field `destination` (None: not submitted).
DestinationFields == {None, "MEL", "XXX"}

\* The query parameters of /api/price-trend (None: not given).
ArgValues == {None, "", "PER", "ADL"}

\* The tables get_ai_insights is given when called on its own.
InsightTables == {<< >>, <<[route_from |-> "MEL", average_price |-> 100]>>}

\* The texts markdown_to_html is given when called on its own.
MdChars == {"*", "-", " ", "\n", "A"}

MdTexts == SeqsUpTo(MdChars, MaxLen) \cup {SaveNow, ListThenParagraph}

TokenCall == [call |-> "token"]

SearchCall(o, d, day, loop) ==
  [call |-> "search", origin |-> o, destination |-> d, day |-> day, loop |-> loop]

GenerateCall == [call |-> "generate"]

Calls(kind) == SelectSeq2(net_log, {c \in Range(net_log) : c.call = kind})

LoopCalls(loop) ==
  SelectSeq2(net_log, {c \in Range(net_log) : c.call = "search" /\ c.loop = loop})

Init ==
  /\ GEMINI_API_KEY \in KeyValues
  /\ pc = "idle"
  /\ handler = None
  /\ destination = None
  /\ origin = None
  /\ origin_cities = << >>
  /\ access_token = None
  /\ popular_routes_df = << >>
  /\ price_trends_df = << >>
  /\ i = 0
  /\ flight_data = << >>
  /\ last_status = None
  /\ net_log = << >>
  /\ response = EmptyDict
  /\ ai_df = << >>
  /\ text = << >>
  /\ lines = << >>
  /\ in_list = FALSE
  /\ html_output = << >>

\* What Flask answers when the view raises.
Abort ==
  /\ pc' = "done"
  /\ response' = [status |-> 500, body |-> "Internal Server Error"]

\* ------------------------------------------------------------------ index
\* A faulty variant of OriginCities: the destination is not left out.
OriginCities_All(destination_city) == CITIES

\* origin_cities = [code for code in CITIES if code != destination_city]
OriginCities(destination_city) == SelectSeq2(CITIES, CityCodes \ {destination_city})

\* A faulty variant of NoToken: the check of the token is missing.
NoToken_Never(token) == FALSE

\* `if not access_token`
NoToken(token) == token = None \/ token = ""

\* index, to the return of line 173 or the start of the snapshot loop.
IndexRequest(field, tok) ==
  LET destination_city == IF field = None THEN "SYD" ELSE field
      cities == OriginCities(destination_city)
      token == get_amadeus_access_token(tok)
  IN  /\ pc = "idle"
      /\ handler' = "index"
      /\ destination' = destination_city
      /\ origin_cities' = cities
      /\ access_token' = token
      /\ net_log' = net_log \o <<TokenCall>>
      /\ IF NoToken(token)
         THEN /\ pc' = "done"
              /\ response' = [status |-> 500,
                              body |-> "Error: Could not authenticate with Amadeus API. Please check your API credentials in app.py."]
              /\ UNCHANGED <<origin, i>>
         ELSE /\ response' = response
              /\ IF cities # << >>
                 THEN pc' = "index_snapshot" /\ i' = 1 /\ origin' = origin
                 ELSE pc' = "index_render" /\ i' = i /\ origin' = None
      /\ UNCHANGED <<GEMINI_API_KEY, popular_routes_df, price_trends_df,
                     flight_data, last_status, ai_df, mdVars>>

\* One pass of `for origin in origin_cities`; after the last one, lines
\* 185-188 choose the trend origin.
SnapshotIter(out) ==
  LET o == origin_cities[i]
      r == search_flight_deals(out)
      df == process_flight_data(r.value, o, destination)
  IN  /\ pc = "index_snapshot"
      /\ net_log' = net_log \o <<SearchCall(o, destination, 1, "snapshot")>>
      /\ last_status' = out.status
      /\ IF r.raised
         THEN /\ Abort
              /\ UNCHANGED <<flight_data, popular_routes_df, i, origin>>
         ELSE /\ flight_data' = r.value
              /\ popular_routes_df' =
                   IF df # << >> THEN popular_routes_df \o df ELSE popular_routes_df
              /\ response' = response
              /\ IF i < Len(origin_cities)
                 THEN pc' = pc /\ i' = i + 1 /\ origin' = origin
                 ELSE pc' = "index_trend" /\ i' = 1 /\ origin' = origin_cities[1]
      /\ UNCHANGED <<GEMINI_API_KEY, handler, destination, origin_cities,
                     access_token, price_trends_df, ai_df, mdVars>>

\* One pass of `for i in range(1, 31)` of index.
IndexTrendIter(out) ==
  LET r == search_flight_deals(out)
  IN  /\ pc = "index_trend"
      /\ net_log' = net_log \o <<SearchCall(origin, destination, i, "trend")>>
      /\ last_status' = out.status
      /\ IF r.raised
         THEN /\ Abort
              /\ UNCHANGED <<flight_data, price_trends_df, i>>
         ELSE /\ flight_data' = r.value
              /\ price_trends_df' =
                   TrendAccumulate(price_trends_df, r.value, origin, destination)
              /\ response' = response
              /\ IF i < TrendDays
                 THEN pc' = pc /\ i' = i + 1
                 ELSE pc' = "index_render" /\ i' = i
      /\ UNCHANGED <<GEMINI_API_KEY, handler, destination, origin,
                     origin_cities, access_token, popular_routes_df, ai_df,
                     mdVars>>

\* price_trends_data and trend_chart_title (lines 200-212)
IndexTrendData(df) ==
  IF df # << >>
  THEN [labels |-> Column(PriceTrends(df), "departure_date"),
        data |-> Column(PriceTrends(df), "price")]
  ELSE EmptyDict

IndexTrendTitle(df, o, d) ==
  IF df # << >>
  THEN <<"Daily Price Trend: ", CitiesGet(o), " to ", CitiesGet(d)>>
  ELSE <<"Daily Price Trend (Next Month)">>

\* popular_routes_data (lines 217-221)
IndexRoutesData(popular_routes, d) ==
  [labels |-> [k \in 1..Len(popular_routes) |->
                 <<CitiesGetOr(popular_routes[k].origin), " -> ", CitiesGetOr(d)>>],
   data |-> Column(popular_routes, "price"),
   origin_codes |-> Column(popular_routes, "origin")]

\* popular_routes of line 216 when the snapshot has rows; nothing otherwise.
RouteResults(df) == IF df # << >> THEN PopularRoutes(df) ELSE {<< >>}

\* Lines 199-232: the two aggregations, the summary, the page.
IndexRender(popular_routes, gen) ==
  LET has_routes == popular_routes_df # << >>
      table == InsightTable(popular_routes)
      ai == get_ai_insights(GEMINI_API_KEY, table, gen)
  IN  /\ pc = "index_render"
      /\ popular_routes \in RouteResults(popular_routes_df)
      /\ pc' = "done"
      /\ ai_df' = IF has_routes THEN table ELSE ai_df
      /\ net_log' = IF has_routes /\ ai.calls = 1
                    THEN net_log \o <<GenerateCall>> ELSE net_log
      /\ response' =
           [status |-> 200,
            template |-> "index.html",
            selected_destination |-> destination,
            price_trends |-> IndexTrendData(price_trends_df),
            popular_routes |-> IF has_routes
                               THEN IndexRoutesData(popular_routes, destination)
                               ELSE EmptyDict,
            ai_summary |-> IF has_routes THEN ai.html ELSE NO_DATA_FOUND,
            trend_chart_title |->
              IndexTrendTitle(price_trends_df, origin, destination)]
      /\ UNCHANGED <<GEMINI_API_KEY, handler, reqVars, mdVars>>

\* -------------------------------------------------------- api_price_trend
MISSING_PARAMETERS ==
  [status |-> 400, json |-> [error |-> "Missing origin or destination parameters"]]

NOT_AUTHENTICATED ==
  [status |-> 500, json |-> [error |-> "Could not authenticate with Amadeus API"]]

\* `not origin` for a query parameter
Falsy(arg) == arg = None \/ arg = ""

\* A faulty variant of ApiRequest: the token is fetched before the parameters are
\* checked.
ApiRequest_TokenFirst(o, d, tok) ==
  LET token == get_amadeus_access_token(tok)
  IN  /\ pc = "idle"
      /\ handler' = "api_price_trend"
      /\ origin' = o
      /\ destination' = d
      /\ access_token' = token
      /\ net_log' = net_log \o <<TokenCall>>
      /\ IF NoToken(token)
         THEN pc' = "done" /\ response' = NOT_AUTHENTICATED /\ i' = i
         ELSE IF Falsy(o) \/ Falsy(d)
              THEN pc' = "done" /\ response' = MISSING_PARAMETERS /\ i' = i
              ELSE pc' = "api_trend" /\ response' = response /\ i' = 1
      /\ UNCHANGED <<GEMINI_API_KEY, origin_cities, popular_routes_df,
                     price_trends_df, flight_data, last_status, ai_df, mdVars>>

\* api_price_trend, to the return of line 241 or 245 or the start of the loop.
ApiRequest(o, d, tok) ==
  LET token == get_amadeus_access_token(tok)
  IN  /\ pc = "idle"
      /\ handler' = "api_price_trend"
      /\ origin' = o
      /\ destination' = d
      /\ IF Falsy(o) \/ Falsy(d)
         THEN /\ pc' = "done"
              /\ response' = MISSING_PARAMETERS
              /\ UNCHANGED <<access_token, net_log, i>>
         ELSE /\ access_token' = token
              /\ net_log' = net_log \o <<TokenCall>>
              /\ IF NoToken(token)
                 THEN pc' = "done" /\ response' = NOT_AUTHENTICATED /\ i' = i
                 ELSE pc' = "api_trend" /\ response' = response /\ i' = 1
      /\ UNCHANGED <<GEMINI_API_KEY, origin_cities, popular_routes_df,
                     price_trends_df, flight_data, last_status, ai_df, mdVars>>

\* One pass of `for i in range(1, 31)` of api_price_trend.
ApiTrendIter(out) ==
  LET r == search_flight_deals(out)
  IN  /\ pc = "api_trend"
      /\ net_log' = net_log \o <<SearchCall(origin, destination, i, "trend")>>
      /\ last_status' = out.status
      /\ IF r.raised
         THEN /\ Abort
              /\ UNCHANGED <<flight_data, price_trends_df, i>>
         ELSE /\ flight_data' = r.value
              /\ price_trends_df' =
                   TrendAccumulate(price_trends_df, r.value, origin, destination)
              /\ response' = response
              /\ IF i < TrendDays
                 THEN pc' = pc /\ i' = i + 1
                 ELSE pc' = "api_respond" /\ i' = i
      /\ UNCHANGED <<GEMINI_API_KEY, handler, destination, origin,
                     origin_cities, access_token, popular_routes_df, ai_df,
                     mdVars>>

\* Lines 257-266: the JSON answer.
ApiRespond ==
  /\ pc = "api_respond"
  /\ pc' = "done"
  /\ response' =
       IF price_trends_df = << >>
       THEN [status |-> 200,
             json |-> [labels |-> << >>, data |-> << >>,
                       chart_title |-> <<"No Trend Data for ", origin, " to ", destination>>]]
       ELSE [status |-> 200,
             json |-> [labels |-> Column(PriceTrends(price_trends_df), "departure_date"),
                       data |-> Column(PriceTrends(price_trends_df), "price"),
                       chart_title |-> <<"Daily Price Trend: ", CitiesGet(origin),
                                         " to ", CitiesGet(destination)>>]]
  /\ UNCHANGED <<GEMINI_API_KEY, handler, reqVars, net_log, ai_df, mdVars>>

\* ------------------------------------- the two helpers called on their own
\* get_ai_insights(df)
InsightsCall(df, gen) ==
  LET ai == get_ai_insights(GEMINI_API_KEY, df, gen)
  IN  /\ pc = "idle"
      /\ handler' = "get_ai_insights"
      /\ ai_df' = df
      /\ net_log' = IF ai.calls = 1 THEN net_log \o <<GenerateCall>> ELSE net_log
      /\ response' = [html |-> ai.html]
      /\ pc' = "done"
      /\ UNCHANGED <<GEMINI_API_KEY, reqVars, mdVars>>

\* markdown_to_html(text), lines 42-46
MdCall(t) ==
  /\ pc = "idle"
  /\ handler' = "markdown_to_html"
  /\ text' = t
  /\ lines' = MdLines(t)
  /\ in_list' = FALSE
  /\ html_output' = << >>
  /\ pc' = "md_loop"
  /\ UNCHANGED <<GEMINI_API_KEY, reqVars, net_log, response, ai_df>>

\* One pass of `for line in lines`, lines 48-63
MdLine ==
  LET st == MdStep([in_list |-> in_list, html_output |-> html_output], Head(lines))
  IN  /\ pc = "md_loop"
      /\ lines # << >>
      /\ in_list' = st.in_list
      /\ html_output' = st.html_output
      /\ lines' = Tail(lines)
      /\ UNCHANGED <<GEMINI_API_KEY, pc, handler, reqVars, net_log, response,
                     ai_df, text>>

\* Lines 65-68
MdReturn ==
  LET st == CloseList([in_list |-> in_list, html_output |-> html_output])
  IN  /\ pc = "md_loop"
      /\ lines = << >>
      /\ in_list' = st.in_list
      /\ html_output' = st.html_output
      /\ response' = [html |-> st.html_output]
      /\ pc' = "done"
      /\ UNCHANGED <<GEMINI_API_KEY, handler, reqVars, net_log, ai_df, text, lines>>

\* ------------------------------------------------------ the specification
Next ==
  \/ \E field \in DestinationFields, tok \in TokenOutcomes : IndexRequest(field, tok)
  \/ /\ pc = "index_snapshot"
     /\ \E out \in SearchOutcomes(origin_cities[i], destination) : SnapshotIter(out)
  \/ /\ pc = "index_trend"
     /\ \E out \in SearchOutcomes(origin, destination) : IndexTrendIter(out)
  \/ /\ pc = "index_render"
     /\ \E popular_routes \in RouteResults(popular_routes_df), gen \in GenOutcomes :
          IndexRender(popular_routes, gen)
  \/ \E o \in ArgValues, d \in ArgValues, tok \in TokenOutcomes : ApiRequest(o, d, tok)
  \/ /\ pc = "api_trend"
     /\ \E out \in SearchOutcomes(origin, destination) : ApiTrendIter(out)
  \/ ApiRespond
  \/ \E df \in InsightTables, gen \in GenOutcomes : InsightsCall(df, gen)
  \/ \E t \in MdTexts : MdCall(t)
  \/ MdLine
  \/ MdReturn

Spec == Init /\ [][Next]_vars

\* ------------------------------------------------------------ properties
Count(seq, x) == Cardinality({k \in 1..Len(seq) : seq[k] = x})

Finished(h) == pc = "done" /\ handler = h /\ response.status = 200

\* The step appended one search to the log.
SearchStep ==
  /\ Len(net_log') = Len(net_log) + 1
  /\ net_log'[Len(net_log')].call = "search"

\* The rows of one origin (one date) in a dataframe, as positions.
OriginRows(df, o) == {k \in 1..Len(df) : df[k].origin = o}

SumAt(df, K) == SumPrices(SelectSeq2(df, {df[k] : k \in K}))

\* C1. Route aggregation of index: whenever the snapshot has rows, the averages
\* of the answer are in non-decreasing order, every origin that has a row is
\* in the answer exactly once, and no origin without rows is in it.
C1_RoutesSortedEachOriginOnce ==
  (Finished("index") /\ popular_routes_df # << >>) =>
    LET pr == response.popular_routes IN
    /\ Len(pr.data) = Len(pr.origin_codes)
    /\ Len(pr.labels) = Len(pr.origin_codes)
    /\ \A k \in 1..(Len(pr.data) - 1) : pr.data[k] <= pr.data[k + 1]
    /\ \A o \in OriginsOf(popular_routes_df) : Count(pr.origin_codes, o) = 1
    /\ \A k \in 1..Len(pr.origin_codes) :
         pr.origin_codes[k] \in OriginsOf(popular_routes_df)

\* C1's case: two origins have rows and the cheaper one comes later in the
\* ascending order of the codes, so that the sort had to move it.
C1_Witness ==
  /\ Finished("index")
  /\ popular_routes_df # << >>
  /\ response.popular_routes.origin_codes = <<"MEL", "BNE">>
  /\ response.popular_routes.data[1] < response.popular_routes.data[2]

\* The trend answer of a finished request: index's price_trends_data, the JSON
\* of api_price_trend.
TrendAnswer ==
  IF handler = "index" THEN response.price_trends ELSE response.json

TrendFinished ==
  /\ Finished("index") \/ Finished("api_price_trend")
  /\ price_trends_df # << >>

TrendShape(t) ==
  /\ Len(t.labels) = Len(t.data)
  /\ \A k \in 1..(Len(t.labels) - 1) : t.labels[k] < t.labels[k + 1]
  /\ Range(t.labels) = DatesOf(price_trends_df)

\* C2, as amended. Trend aggregation of index and of api_price_trend: the
\* labels hold no date twice and are strictly ascending, there are as many
\* data as labels, and the entry of a date is the mean of the prices of the
\* accumulated rows of that date rounded to two decimals.
C2_TrendOneEntryPerDateRoundedMean ==
  /\ TrendFinished =>
       /\ TrendShape(TrendAnswer)
       /\ \A k \in 1..Len(TrendAnswer.labels) :
            LET K == RowsOn(price_trends_df, TrendAnswer.labels[k])
            IN  TrendAnswer.data[k] = Round2(SumAt(price_trends_df, K), Cardinality(K))
  /\ (Finished("api_price_trend") /\ price_trends_df = << >>) =>
       (response.json.labels = << >> /\ response.json.data = << >>)

\* C2's case: two of the accumulated rows carry the same date and one entry
\* stands for both.
C2_Witness ==
  /\ TrendFinished
  /\ \E d \in DatesOf(price_trends_df) :
       /\ Cardinality(RowsOn(price_trends_df, d)) >= 2
       /\ Count(TrendAnswer.labels, d) = 1

\* C2 as stated: the entry of a date is the mean of its prices itself.
C2_Original ==
  TrendFinished =>
    /\ TrendShape(TrendAnswer)
    /\ \A k \in 1..Len(TrendAnswer.labels) :
         LET K == RowsOn(price_trends_df, TrendAnswer.labels[k])
         IN  TrendAnswer.data[k] * Cardinality(K) = SumAt(price_trends_df, K)

\* The list blocks open after the first k elements of the output.
Depth(out, k) ==
  Cardinality({m \in 1..k : out[m] = "<ul>"})
    - Cardinality({m \in 1..k : out[m] = "</ul>"})

\* The non-blank stripped lines of the input, and the runs of list lines.
NonBlank(ls) == SelectSeq2([k \in 1..Len(ls) |-> Strip(ls[k])],
                           {Strip(ls[k]) : k \in 1..Len(ls)} \ {<< >>})

ListRuns(ls) ==
  Cardinality({k \in 1..Len(ls) :
                 IsListItem(ls[k]) /\ (k = 1 \/ ~IsListItem(ls[k - 1]))})

\* C3. markdown_to_html over the non-blank stripped lines: a list item is
\* emitted only inside an open list block, a paragraph only outside, the tags
\* of list blocks are never nested and never close what is not open, in_list
\* tells whether a block is open, consecutive list lines share one block, and
\* at the return every block is closed; "* A\n* B\nC" gives
\* <ul><li>A</li><li>B</li></ul><p>C</p>.
C3_ListBlocksBalanced ==
  handler = "markdown_to_html" =>
    /\ \A k \in 1..Len(html_output) :
         /\ Depth(html_output, k) \in {0, 1}
         /\ html_output[k] = "<li>" => Depth(html_output, k) = 1
         /\ html_output[k] = "<p>" => Depth(html_output, k) = 0
    /\ pc = "md_loop" => (in_list <=> Depth(html_output, Len(html_output)) = 1)
    /\ pc = "done" =>
         /\ Depth(html_output, Len(html_output)) = 0
         /\ Count(html_output, "<ul>") = ListRuns(NonBlank(MdLines(text)))
         /\ response.html = html_output
         /\ text = ListThenParagraph =>
              html_output = <<"<ul>", "<li>", "A", "</li>", "<li>", "B", "</li>",
                              "</ul>", "<p>", "C", "</p>">>

\* C3's case: a list of two lines was closed by the paragraph after it.
C3_Witness ==
  /\ handler = "markdown_to_html"
  /\ pc = "done"
  /\ text = ListThenParagraph
  /\ Count(html_output, "<li>") = 2
  /\ Count(html_output, "</ul>") = 1

\* C4. api_price_trend with origin or destination missing or empty: HTTP 400
\* with an error field, and no credential exchange and no search made.
C4_MissingParametersBeforeToken ==
  (pc = "done" /\ handler = "api_price_trend"
     /\ (Falsy(origin) \/ Falsy(destination))) =>
    /\ response.status = 400
    /\ "error" \in DOMAIN response.json
    /\ net_log = << >>

\* C4's case: the request without its origin has been answered.
C4_Witness ==
  /\ pc = "done"
  /\ handler = "api_price_trend"
  /\ origin = None
  /\ destination = "ADL"
  /\ response.status = 400

\* C5. index and api_price_trend: when the credential exchange gave no token
\* the request has ended with HTTP 500, after that one exchange and without a
\* search or a generation call.
C5_NoTokenIsFatal ==
  (handler \in {"index", "api_price_trend"}
     /\ Calls("token") # << >> /\ access_token = None) =>
    /\ pc = "done"
    /\ response.status = 500
    /\ net_log = <<TokenCall>>

\* C5's case: index ended on a failed exchange.
C5_Witness ==
  /\ handler = "index"
  /\ access_token = None
  /\ pc = "done"
  /\ response.status = 500
  /\ Calls("token") # << >>

KeyPresent == GEMINI_API_KEY \notin {None, "", PLACEHOLDER_KEY}

\* C6. get_ai_insights: at most one generation call, and only with the key
\* configured and a non-empty table; without the key the result is the "not
\* configured" paragraph, also for an empty table; with the key and an empty
\* table it is the "no data" paragraph; neither makes a call.
C6_InsightsGuards ==
  /\ Len(Calls("generate")) <= 1
  /\ Calls("generate") # << >> => (KeyPresent /\ ai_df # << >>)
  /\ (pc = "done" /\ handler = "get_ai_insights") =>
       /\ ~KeyPresent =>
            (response.html = NOT_CONFIGURED /\ Calls("generate") = << >>)
       /\ (KeyPresent /\ ai_df = << >>) =>
            (response.html = NO_DATA /\ Calls("generate") = << >>)
       /\ (KeyPresent /\ ai_df # << >>) => Len(Calls("generate")) = 1

\* C6's case: the placeholder key and an empty table.
C6_Witness ==
  /\ pc = "done"
  /\ handler = "get_ai_insights"
  /\ GEMINI_API_KEY = PLACEHOLDER_KEY
  /\ ai_df = << >>
  /\ response.html = NOT_CONFIGURED

Scheduled ==
  IF handler = "index" THEN Len(origin_cities) + TrendDays ELSE TrendDays

\* What C7 asks of a state.
C7State ==
  /\ last_status = "error" => flight_data = << >>
  /\ (pc = "done" /\ handler \in {"index", "api_price_trend"}
        /\ access_token # None) =>
       /\ response.status = 200
       /\ Len(Calls("search")) = Scheduled
  /\ (pc = "done" /\ handler = "api_price_trend" /\ access_token # None
        /\ price_trends_df = << >>) =>
       response.json = [labels |-> << >>, data |-> << >>,
                        chart_title |-> <<"No Trend Data for ", origin, " to ",
                                          destination>>]

\* C7. With a token, a failed search is an empty offer list: it leaves both
\* accumulated tables as a search without offers does, the request goes on to
\* make all its searches and answers without an error; api_price_trend whose
\* searches all failed or found nothing answers labels [], data [] and the
\* title "No Trend Data for X to Y".
C7_FailedSearchIsEmpty ==
  [][/\ C7State'
     /\ (SearchStep /\ flight_data' = << >>) =>
          UNCHANGED <<popular_routes_df, price_trends_df>>]_vars

\* C7's case: api_price_trend answered with data although its last search
\* failed.
C7_Witness ==
  /\ Finished("api_price_trend")
  /\ last_status = "error"
  /\ price_trends_df # << >>
  /\ Len(Calls("search")) = TrendDays

\* C8 as stated: a search adds at most one row, so the trend rows are never
\* more than the searches made, nor than the days of the window.
C8_Original ==
  /\ Len(price_trends_df) <= Len(LoopCalls("trend"))
  /\ Len(price_trends_df) <= TrendDays

\* C8, as amended. A trend search adds one row for each distinct departure
\* date among its offers: the cheapest offer of that date, the first of them
\* on a tie; the rows before it stay.
C8_OneRowPerDepartureDate ==
  [][(SearchStep /\ net_log'[Len(net_log')].loop = "trend" /\ pc' # "done") =>
       LET n == Len(price_trends_df)
           added == SubSeq(price_trends_df', n + 1, Len(price_trends_df'))
           rows == process_flight_data(flight_data', origin, destination)
       IN  /\ Len(price_trends_df') >= n
           /\ SubSeq(price_trends_df', 1, n) = price_trends_df
           /\ Len(added) = Cardinality(DatesOf(rows))
           /\ \A k \in 1..Len(added) :
                \E m \in 1..Len(rows) :
                  /\ rows[m] = added[k]
                  /\ \A x \in 1..Len(rows) :
                       rows[x].departure_date = rows[m].departure_date =>
                         \/ rows[m].price < rows[x].price
                         \/ rows[m].price = rows[x].price /\ m <= x]_vars

\* C8's case: one search returned offers of two departure dates and added a
\* row for each.
C8_Witness ==
  /\ handler = "api_price_trend"
  /\ Len(LoopCalls("trend")) = 1
  /\ Cardinality(DatesOf(process_flight_data(flight_data, origin, destination))) = 2
  /\ Len(price_trends_df) = 2

\* The snapshot searches index may make for its destination.
SnapshotBudget ==
  IF destination \in CityCodes THEN Len(CITIES) - 1 ELSE Len(CITIES)

\* The positions in the log of the searches of one loop.
LoopAt(loop) ==
  {k \in 1..Len(net_log) : net_log[k].call = "search" /\ net_log[k].loop = loop}

\* What C9 asks of a state of index.
C9State ==
  handler = "index" =>
    LET snap == LoopAt("snapshot")
        trend == LoopAt("trend")
    IN  /\ net_log[1] = TokenCall
        /\ \A k \in 2..Len(net_log) : net_log[k].call # "token"
        /\ Cardinality(snap) <= SnapshotBudget
        /\ \A k \in snap :
             /\ net_log[k].origin \in CityCodes \ {destination}
             /\ net_log[k].destination = destination
             /\ \A m \in snap : net_log[m].origin = net_log[k].origin => m = k
        /\ Cardinality(trend) <= TrendDays
        /\ \A k \in trend :
             /\ net_log[k].origin \in CityCodes \ {destination}
             /\ net_log[k].destination = destination
             /\ \A m \in trend : net_log[m].origin = net_log[k].origin
             /\ \A m \in snap : m < k
        /\ Finished("index") =>
             (Cardinality(snap) = SnapshotBudget /\ Cardinality(trend) = TrendDays)

\* C9, as amended. One page render, whatever the destination field: one
\* credential exchange first; then one snapshot search for each city other
\* than the destination, 6 for a destination of the city table and 7 for any
\* other value; then at most the window's trend searches, all from one origin
\* that is not the destination; one call at a time.
C9_CallBudget ==
  [][C9State' /\ Len(net_log') <= Len(net_log) + 1]_vars

\* C9's case: the destination is not in the city table and every city has
\* been searched.
C9_Witness ==
  /\ Finished("index")
  /\ destination = "XXX"
  /\ Len(LoopCalls("snapshot")) = Len(CITIES)

\* C9 as stated: at most 6 snapshot searches, whatever the destination.
C9_Original ==
  handler = "index" => Len(LoopCalls("snapshot")) <= Len(CITIES) - 1

\* The position of a code in CITIES: the order the snapshot loop first
\* accumulates the origins in.
InsertionRank(code) == CHOOSE k \in 1..Len(CITIES) : CITIES[k] = code

ExactMean(o) ==
  [sum |-> SumAt(popular_routes_df, OriginRows(popular_routes_df, o)),
   count |-> Cardinality(OriginRows(popular_routes_df, o))]

\* C10 as stated: origins of equal mean price keep their insertion order.
C10_Original ==
  (Finished("index") /\ popular_routes_df # << >>) =>
    LET codes == response.popular_routes.origin_codes IN
    \A k, m \in 1..Len(codes) :
      (k < m /\ MeanLeq(ExactMean(codes[k]), ExactMean(codes[m]))
             /\ MeanLeq(ExactMean(codes[m]), ExactMean(codes[k]))) =>
        InsertionRank(codes[k]) < InsertionRank(codes[m])

\* C10, as amended. The origins of the answer are in the order of their
\* unrounded mean prices: origins whose averages are equal only after the
\* rounding are in the order of the unrounded means (the order of origins of
\* equal unrounded mean is not fixed).
C10_OrderedByUnroundedMean ==
  (Finished("index") /\ popular_routes_df # << >>) =>
    LET codes == response.popular_routes.origin_codes IN
    \A k, m \in 1..Len(codes) :
      k < m => MeanLeq(ExactMean(codes[k]), ExactMean(codes[m]))

\* C10's case: two origins with the same rounded average and different
\* unrounded means.
C10_Witness ==
  /\ Finished("index")
  /\ popular_routes_df # << >>
  /\ Len(response.popular_routes.data) = 2
  /\ response.popular_routes.data[1] = response.popular_routes.data[2]
  /\ ~MeanLeq(ExactMean(response.popular_routes.origin_codes[2]),
              ExactMean(response.popular_routes.origin_codes[1]))

====
